---- MODULE Spec2Model ----
(***************************************************************************)
(* The retrieval-augmented generation pipeline of read-wise:               *)
(* VectorService.vectorize_book, EmbeddingService.create_embeddings,       *)
(* VectorService.search_similar, RAGService.generate_response and the      *)
(* chat routes, as written in RAG_IMPLEMENTATION_PLAN.md.                  *)
(*                                                                         *)
(* Every request is an asyncio task; a task gives up control only at an    *)
(* await, so each action below is the code between two awaits together     *)
(* with the awaited call's effect on the store it talks to.                *)
(***************************************************************************)
EXTENDS Integers, Sequences, FiniteSets, TLC

\* ---------------------------------------------------------------- bounds
\* Number of requests (vectorize or chat) issued in one behaviour.
MaxCalls == 2
\* batch_size = 100 in create_embeddings, scaled so that a book of three
\* chunks spans two batches.
batch_size == 2
\* RAGRequest.max_context_chunks = 5, scaled.
max_context_chunks == 2
\* rag_config.max_context_length = 4000 characters, scaled.
max_context_length == 3

\* ------------------------------------------------------------- universe
\* Documents of db.books.  "B0" is an id no document of db.books carries.
Books == {"B1"}
BookIds == Books \cup {"B0"}
\* Concurrent request handlers (asyncio tasks).
Procs == {"p1", "p2"}

\* Extracted text of a book: a sequence of paragraphs, " " a paragraph of
\* white space only.  StrLen is len() of the paragraphs used.  No paragraph
\* is longer than max_context_length: the splitter cuts at chunk_size = 1000
\* characters and max_context_length is 4000.
Texts == { <<>>, <<" ">>, <<"ccc", " ", "a", "bb">>, <<"bb">> }
StrLen(s) == CASE s = "" -> 0 [] s = " " -> 1 [] s = "a" -> 1
               [] s = "bb" -> 2 [] s = "ccc" -> 3 [] OTHER -> 4
\* User messages.  Cosine similarity of a query and a chunk, in tenths.
Queries == {"q1", "q2"}
Similarity(q, content) ==
  IF q = "q1"
  THEN CASE content = "ccc" -> 9 [] content = "a" -> 8 [] content = "bb" -> 7 [] OTHER -> 8
  ELSE 3

None == "None"
\* None in the place of a chunk id and of a datetime: values that TLC can
\* compare with an id and with a time.
NoneId == <<>>
NoneTime == 0 - 1
\* rag_config.embedding_dimension = 2048, scaled.
embedding_dimension == 2
NoBook == [vector_status |-> "absent"]

\* rag_config.similarity_threshold = 0.7, in tenths.
similarity_threshold == 7

VARIABLES
  books,          \* db.books: id -> document (the vectorization status record)
  book_chunks,    \* db.book_chunks: sequence of DocumentChunk documents
  points,         \* the Qdrant collection: sequence of PointStruct
  chat_messages,  \* db.chat_messages: sequence of message documents
  text,           \* content of book["file_path"]
  collection,     \* the Qdrant collection: {} while absent, else {its vector size}
  init_rag,       \* scripts/init_rag.py: pending, done or raised
  embRev,         \* revision of the model behind the embedding backend
  now,            \* datetime.now(); advances with every request issued
  loc,            \* loc[p]: the local variables of handler p
  notifications,  \* AppContext state.notifications: sequence of notifications
  timers,         \* the callbacks setTimeout has scheduled and not yet run
  clock           \* Date.now(), in ticks

\* The state of the backend and the state of the browser application.
backend == <<books, book_chunks, points, chat_messages, text, collection, init_rag, embRev, now, loc>>
frontend == <<notifications, timers, clock>>
vars == <<books, book_chunks, points, chat_messages, text, collection, init_rag, embRev, now, loc,
          notifications, timers, clock>>

\* AppContext.js, initialState: no notification; no timer is pending.
initialState == notifications = <<>> /\ timers = {} /\ clock = 0

\* ------------------------------------------------------ pure functions
\* str.strip()
strip(s) == IF s = " " THEN "" ELSE s

\* RecursiveCharacterTextSplitter.split_text: pieces are stripped and the
\* empty ones are dropped.
split_text(content) ==
  SelectSeq([k \in 1..Len(content) |-> strip(content[k])], LAMBDA s : s # "")

\* split_text_into_chunks: one DocumentChunk per piece.  uuid4() is a fresh
\* id: the pair of the issuing request's number and the piece's position.
split_text_into_chunks(content, book_id, req) ==
  LET text_chunks == split_text(content)
  IN  [k \in 1..Len(text_chunks) |->
         [id |-> <<req, k>>, book_id |-> book_id, chunk_index |-> k - 1,
          content |-> strip(text_chunks[k]), vector_id |-> NoneId]]

\* The embedding backend: response.data holds one vector per input, in
\* input order; the vector depends on the text and on the model revision.
Embedding(t, rev) == [of |-> t, rev |-> rev]
\* len(item.embedding): revisions 1 and 2 are models of the configured
\* dimension, revision 3 is a model of another one.
Dim(vector) == IF vector.rev = 3 THEN embedding_dimension + 1 ELSE embedding_dimension
BackendEmbed(batch, rev) == [k \in 1..Len(batch) |-> Embedding(batch[k], rev)]

\* texts[i:i + batch_size] (i is 0-based)
Batch(texts, i) ==
  SubSeq(texts, i + 1, IF i + batch_size < Len(texts) THEN i + batch_size ELSE Len(texts))

\* all_embeddings.extend written as an insertion at the front.
Extend_front(all_embeddings, batch_embeddings) == batch_embeddings \o all_embeddings

\* all_embeddings.extend(batch_embeddings)
Extend(all_embeddings, batch_embeddings) == all_embeddings \o batch_embeddings

\* PointStruct(id=chunk.id, vector=embedding, payload={...})
PointStruct(chunk, embedding) ==
  [id |-> chunk.id, vector |-> embedding,
   payload |-> [book_id |-> chunk.book_id, content |-> chunk.content,
                chunk_index |-> chunk.chunk_index]]

\* zip(chunks, embeddings) stops at the shorter list
MakePoints(chunks, embeddings) ==
  LET n == IF Len(chunks) < Len(embeddings) THEN Len(chunks) ELSE Len(embeddings)
  IN  [k \in 1..n |-> PointStruct(chunks[k], embeddings[k])]

\* An index write that appends every point, whatever is stored already.
Upsert_append(coll, pts) == coll \o pts

\* client.upsert: a point whose id is already stored is replaced in place,
\* a new id is appended.
RECURSIVE Upsert(_, _)
Upsert(coll, pts) ==
  IF pts = <<>> THEN coll
  ELSE LET pt == Head(pts)
           hit == \E k \in 1..Len(coll) : coll[k].id = pt.id
           next == IF hit
                   THEN [k \in 1..Len(coll) |-> IF coll[k].id = pt.id THEN pt ELSE coll[k]]
                   ELSE Append(coll, pt)
       IN  Upsert(next, Tail(pts))

\* db.book_chunks.find({"book_id": book_id}).to_list(None)
\* A lookup that never finds the chunks stored by an earlier run.
FindChunks_none(coll, book_id) == <<>>

FindChunks(coll, book_id) == SelectSeq(coll, LAMBDA c : c.book_id = book_id)

\* db.book_chunks.update_one({"id": id}, {"$set": {"vector_id": id}}):
\* the first matching document is updated.
SetVectorId(coll, id) ==
  IF \E k \in 1..Len(coll) : coll[k].id = id
  THEN LET first == CHOOSE k \in 1..Len(coll) :
                      /\ coll[k].id = id
                      /\ \A m \in 1..(k - 1) : coll[m].id # id
       IN  [coll EXCEPT ![first].vector_id = id]
  ELSE coll

\* db.books.find_one({"id": book_id})
FindBook(book_id) == IF book_id \in DOMAIN books THEN books[book_id] ELSE NoBook

\* An update whose filter matches every book.
UpdateBook_all(book_id, doc) == [b \in DOMAIN books |-> doc]

\* db.books.update_one({"id": book_id}, {"$set": fields}): no document, no change.
UpdateBook(book_id, doc) == IF book_id \in DOMAIN books THEN [books EXCEPT ![book_id] = doc] ELSE books

\* Cosine similarity of two vectors, in tenths.
Score(query_vector, vector) == Similarity(query_vector.of, vector.of)

\* The points of coll sorted by descending score (stable).
RECURSIVE SortByScore(_, _)
SortByScore(coll, query_vector) ==
  IF coll = <<>> THEN <<>>
  ELSE LET best == CHOOSE k \in 1..Len(coll) :
                     /\ \A m \in 1..Len(coll) :
                          Score(query_vector, coll[m].vector) <= Score(query_vector, coll[k].vector)
                     /\ \A m \in 1..(k - 1) :
                          Score(query_vector, coll[m].vector) < Score(query_vector, coll[k].vector)
           rest == [m \in 1..(Len(coll) - 1) |-> IF m < best THEN coll[m] ELSE coll[m + 1]]
       IN  <<coll[best]>> \o SortByScore(rest, query_vector)

\* A search whose query_filter is left out.
Search_unfiltered(coll, query_vector, book_id, limit, score_threshold) ==
  LET matching == SelectSeq(coll, LAMBDA pt :
                    Score(query_vector, pt.vector) >= score_threshold)
      ranked == SortByScore(matching, query_vector)
      n == IF Len(ranked) < limit THEN Len(ranked) ELSE limit
  IN  [k \in 1..n |-> [chunk_id |-> ranked[k].id, content |-> ranked[k].payload.content,
                       score |-> Score(query_vector, ranked[k].vector)]]

\* client.search(query_vector, query_filter book_id, limit, score_threshold)
\* followed by the conversion to SearchResult, lines 330-359.
Search(coll, query_vector, book_id, limit, score_threshold) ==
  LET matching == SelectSeq(coll, LAMBDA pt :
                    /\ pt.payload.book_id = book_id
                    /\ Score(query_vector, pt.vector) >= score_threshold)
      ranked == SortByScore(matching, query_vector)
      n == IF Len(ranked) < limit THEN Len(ranked) ELSE limit
  IN  [k \in 1..n |-> [chunk_id |-> ranked[k].id, content |-> ranked[k].payload.content,
                       score |-> Score(query_vector, ranked[k].vector)]]

\* _build_context, lines 517-537.
\* A loop that tests the budget only after a hit has been added.
RECURSIVE BuildContextFrom_late(_, _, _)
BuildContextFrom_late(search_results, total_length, max_length) ==
  IF search_results = <<>> \/ total_length > max_length THEN <<>>
  ELSE LET result == Head(search_results) IN
       <<[content |-> result.content, relevance_score |-> result.score]>>
       \o BuildContextFrom_late(Tail(search_results),
                                total_length + StrLen(result.content), max_length)

\* A loop that passes over a hit that does not fit and goes on (continue
\* in the place of break).
RECURSIVE BuildContextFrom_skip(_, _, _)
BuildContextFrom_skip(search_results, total_length, max_length) ==
  IF search_results = <<>> THEN <<>>
  ELSE LET result == Head(search_results) IN
       IF total_length + StrLen(result.content) > max_length
       THEN BuildContextFrom_skip(Tail(search_results), total_length, max_length)
       ELSE <<[content |-> result.content, relevance_score |-> result.score]>>
            \o BuildContextFrom_skip(Tail(search_results),
                                     total_length + StrLen(result.content), max_length)

RECURSIVE BuildContextFrom(_, _, _)
BuildContextFrom(search_results, total_length, max_length) ==
  IF search_results = <<>> THEN <<>>
  ELSE LET result == Head(search_results) IN
       IF total_length + StrLen(result.content) > max_length
       THEN <<>>
       ELSE <<[content |-> result.content, relevance_score |-> result.score]>>
            \o BuildContextFrom(Tail(search_results),
                                total_length + StrLen(result.content), max_length)
_build_context(search_results) == BuildContextFrom(search_results, 0, max_context_length)

\* ------------------------------------------------------------ handlers
Idle == [op |-> "none", pc |-> "idle", book_id |-> "B0", force |-> FALSE, req |-> 0,
         chunks |-> <<>>, embeddings |-> <<>>, i |-> 0,
         err |-> None, result |-> None, query |-> None, response |-> None,
         search_results |-> <<>>, context_chunks |-> <<>>, embedCalls |-> 0, completionCalls |-> 0]

\* A book that has just been uploaded.
NewBook == [vector_status |-> "pending", vectorize_started_at |-> NoneTime,
            vectorize_completed_at |-> NoneTime, chunk_count |-> 0,
            vectorize_error |-> None]

\* The stores as one earlier vectorize_book(b) run, made at time 0, leaves them.
IndexedChunks(b, txt) ==
  LET chunks == split_text_into_chunks(txt, b, 0)
  IN  [k \in 1..Len(chunks) |-> [chunks[k] EXCEPT !.vector_id = chunks[k].id]]
IndexedPoints(b, txt) ==
  LET chunks == IndexedChunks(b, txt)
  IN  MakePoints(chunks, BackendEmbed([k \in 1..Len(chunks) |-> chunks[k].content], 1))
IndexedBook(b, txt) ==
  [NewBook EXCEPT !.vector_status = "completed", !.vectorize_started_at = 0,
                  !.vectorize_completed_at = 0,
                  !.chunk_count = Len(IndexedChunks(b, txt))]

\* One book, either just uploaded or already vectorized by an earlier run;
\* init_rag.py has created the collection.
Init ==
  /\ text \in [Books -> Texts]
  /\ \/ /\ books = [b \in Books |-> NewBook]
        /\ book_chunks = <<>>
        /\ points = <<>>
     \/ /\ split_text(text["B1"]) # <<>>
        /\ books = [b \in Books |-> IndexedBook(b, text[b])]
        /\ book_chunks = IndexedChunks("B1", text["B1"])
        /\ points = IndexedPoints("B1", text["B1"])
  /\ chat_messages = <<>>
  /\ collection = {embedding_dimension}
  /\ init_rag = "done"
  /\ embRev = 1
  /\ now = 0
  /\ initialState
  /\ loc = [p \in Procs |-> Idle]

\* What is left of a request once it has been answered: its result and the
\* number of backend calls it made.
Answered(l, result) ==
  [Idle EXCEPT !.op = l.op, !.book_id = l.book_id, !.result = result,
               !.embedCalls = l.embedCalls, !.completionCalls = l.completionCalls]

\* Where create_embeddings stands after its loop variable has become i.
AfterBatch(i, n) == IF i < n THEN "v_embed" ELSE "v_upsert"

\* POST /vectorize/{book_id}?force=... is received by handler p.
VectorizeCall(p, b, f) ==
  /\ loc[p].pc = "idle"
  /\ now < MaxCalls
  /\ now' = now + 1
  /\ loc' = [loc EXCEPT ![p] = [Idle EXCEPT !.op = "vectorize", !.pc = "v_find",
                                            !.book_id = b, !.force = f, !.req = now + 1]]
  /\ UNCHANGED <<books, book_chunks, points, chat_messages, text, collection, init_rag, embRev, frontend>>

\* line 268 with a book that is processing taken for one that is done.
SkipVectorize_busy(force_reprocess, book) ==
  ~force_reprocess /\ book.vector_status \in {"completed", "processing"}

\* line 268 with the force_reprocess test left out.
SkipVectorize_unforced(force_reprocess, book) == book.vector_status = "completed"

\* line 268: nothing to do for a completed book unless the run is forced.
SkipVectorize(force_reprocess, book) ==
  ~force_reprocess /\ book.vector_status = "completed"

\* vectorize_book, lines 262-273: find the book, return at once when it is
\* completed and the run is not forced.
VectorizeFind(p) ==
  LET l == loc[p]
      book == FindBook(l.book_id)
  IN
  /\ l.pc = "v_find"
  /\ loc' = [loc EXCEPT ![p] =
       IF book = NoBook
       THEN [l EXCEPT !.pc = "v_except", !.err = "ValueError"]
       ELSE IF SkipVectorize(l.force, book)
       THEN Answered(l, "completed")
       ELSE [l EXCEPT !.pc = "v_setproc"]]
  /\ UNCHANGED <<books, book_chunks, points, chat_messages, text, collection, init_rag, embRev, now, frontend>>

\* lines 275-282: vector_status = processing, vectorize_started_at = now.
VectorizeSetProcessing(p) ==
  LET l == loc[p] IN
  /\ l.pc = "v_setproc"
  /\ books' = UpdateBook(l.book_id,
                [books[l.book_id] EXCEPT !.vector_status = "processing",
                                         !.vectorize_started_at = now])
  /\ loc' = [loc EXCEPT ![p].pc = "v_chunks"]
  /\ UNCHANGED <<book_chunks, points, chat_messages, text, collection, init_rag, embRev, now, frontend>>

\* _get_or_create_chunks, lines 369-373: reuse the chunks already stored.
VectorizeGetChunks(p) ==
  LET l == loc[p]
      existing_chunks == FindChunks(book_chunks, l.book_id)
  IN
  /\ l.pc = "v_chunks"
  /\ loc' = [loc EXCEPT ![p] =
       IF existing_chunks # <<>>
       THEN [l EXCEPT !.chunks = existing_chunks, !.i = 0,
                      !.pc = AfterBatch(0, Len(existing_chunks))]
       ELSE [l EXCEPT !.pc = "v_create"]]
  /\ UNCHANGED <<books, book_chunks, points, chat_messages, text, collection, init_rag, embRev, now, frontend>>

\* An insert_many that is skipped, or accepted, for an empty list.
InsertManyRaises_never(docs) == FALSE

\* db.book_chunks.insert_many(docs).  The MongoDB driver refuses an empty
\* list of documents (TypeError: documents must be a non-empty list).
InsertManyRaises(docs) == docs = <<>>

\* _get_or_create_chunks, lines 375-388: read the file, split, insert.
VectorizeCreateChunks(p) ==
  LET l == loc[p]
      chunks == split_text_into_chunks(text[l.book_id], l.book_id, l.req)
  IN
  /\ l.pc = "v_create"
  /\ \/ \* _read_book_content raises
        /\ loc' = [loc EXCEPT ![p] = [l EXCEPT !.pc = "v_except", !.err = "read"]]
        /\ UNCHANGED book_chunks
     \/ /\ InsertManyRaises(chunks)
        /\ loc' = [loc EXCEPT ![p] = [l EXCEPT !.pc = "v_except", !.err = "TypeError"]]
        /\ UNCHANGED book_chunks
     \/ /\ ~InsertManyRaises(chunks)
        /\ book_chunks' = book_chunks \o chunks
        /\ loc' = [loc EXCEPT ![p] = [l EXCEPT !.chunks = chunks, !.i = 0,
                                               !.pc = AfterBatch(0, Len(chunks))]]
  /\ UNCHANGED <<books, points, chat_messages, text, collection, init_rag, embRev, now, frontend>>

\* An except branch that hands back the vectors gathered so far.
EmbedFailure_partial(l) == [l EXCEPT !.pc = "v_upsert", !.embedCalls = @ + 1]

\* create_embeddings, lines 202-204: the backend call has raised; the error
\* is logged and raised again, all_embeddings is lost with the frame.
EmbedFailure(l) ==
  [l EXCEPT !.pc = "v_except", !.err = "embed", !.embeddings = <<>>, !.embedCalls = @ + 1]

\* create_embeddings, lines 186-198: one pass of the batch loop.
VectorizeEmbedBatch(p) ==
  LET l == loc[p]
      texts == [k \in 1..Len(l.chunks) |-> l.chunks[k].content]
  IN
  /\ l.pc = "v_embed"
  /\ \/ \* the backend call raises
        loc' = [loc EXCEPT ![p] = EmbedFailure(l)]
     \/ loc' = [loc EXCEPT ![p] =
          [l EXCEPT !.embeddings = Extend(@, BackendEmbed(Batch(texts, l.i), embRev)),
                    !.embedCalls = @ + 1,
                    !.i = l.i + batch_size,
                    !.pc = AfterBatch(l.i + batch_size, Len(texts))]]
  /\ UNCHANGED <<books, book_chunks, points, chat_messages, text, collection, init_rag, embRev, now, frontend>>

\* Qdrant refuses a write to a collection that does not exist and a write
\* holding a vector whose length is not the collection's vector size.
UpsertRejected(coll, pts) ==
  \/ coll = {}
  \/ \E k \in 1..Len(pts) : Dim(pts[k].vector) \notin coll

\* _process_chunks, lines 398-419: build the points and upsert them.
VectorizeUpsert(p) ==
  LET l == loc[p]
      pts == MakePoints(l.chunks, l.embeddings)
  IN
  /\ l.pc = "v_upsert"
  /\ \/ \* client.upsert raises
        /\ loc' = [loc EXCEPT ![p] = [l EXCEPT !.pc = "v_except", !.err = "upsert"]]
        /\ UNCHANGED points
     \/ /\ UpsertRejected(collection, pts)
        /\ loc' = [loc EXCEPT ![p] = [l EXCEPT !.pc = "v_except", !.err = "rejected"]]
        /\ UNCHANGED points
     \/ /\ ~UpsertRejected(collection, pts)
        /\ points' = Upsert(points, pts)
        /\ loc' = [loc EXCEPT ![p] = [l EXCEPT !.i = 0,
                      !.pc = IF Len(l.chunks) > 0 THEN "v_setvec" ELSE "v_complete"]]
  /\ UNCHANGED <<books, book_chunks, chat_messages, text, collection, init_rag, embRev, now, frontend>>

\* _process_chunks, lines 421-427: one pass of the vector_id loop.
VectorizeSetVectorId(p) ==
  LET l == loc[p] IN
  /\ l.pc = "v_setvec"
  /\ book_chunks' = SetVectorId(book_chunks, l.chunks[l.i + 1].id)
  /\ loc' = [loc EXCEPT ![p] = [l EXCEPT !.i = l.i + 1,
                !.pc = IF l.i + 1 < Len(l.chunks) THEN "v_setvec" ELSE "v_complete"]]
  /\ UNCHANGED <<books, points, chat_messages, text, collection, init_rag, embRev, now, frontend>>

\* lines 290-306: vector_status = completed, completed_at, chunk_count.
VectorizeComplete(p) ==
  LET l == loc[p] IN
  /\ l.pc = "v_complete"
  /\ books' = UpdateBook(l.book_id,
                [books[l.book_id] EXCEPT !.vector_status = "completed",
                                         !.vectorize_completed_at = now,
                                         !.chunk_count = Len(l.chunks)])
  /\ loc' = [loc EXCEPT ![p] = Answered(l, "completed")]
  /\ UNCHANGED <<book_chunks, points, chat_messages, text, collection, init_rag, embRev, now, frontend>>

\* An except branch that logs the error and leaves the status record alone.
FailedDoc_swallowed(doc, e) == doc

\* lines 310-316: {"$set": {"vector_status": "failed", "vectorize_error": str(e)}}
FailedDoc(doc, e) == [doc EXCEPT !.vector_status = "failed", !.vectorize_error = e]

\* lines 308-318: vector_status = failed, vectorize_error = str(e), raise.
VectorizeExcept(p) ==
  LET l == loc[p] IN
  /\ l.pc = "v_except"
  /\ books' = IF l.book_id \in DOMAIN books
              THEN UpdateBook(l.book_id, FailedDoc(books[l.book_id], l.err))
              ELSE books
  /\ loc' = [loc EXCEPT ![p] = Answered(l, "raised")]
  /\ UNCHANGED <<book_chunks, points, chat_messages, text, collection, init_rag, embRev, now, frontend>>

\* POST / (send_book_message) is received by handler p.
ChatCall(p, b, q) ==
  /\ loc[p].pc = "idle"
  /\ now < MaxCalls
  /\ now' = now + 1
  /\ loc' = [loc EXCEPT ![p] = [Idle EXCEPT !.op = "chat", !.pc = "c_find",
                                            !.book_id = b, !.query = q, !.req = now + 1]]
  /\ UNCHANGED <<books, book_chunks, points, chat_messages, text, collection, init_rag, embRev, frontend>>

\* A readiness test that only turns away books never vectorized.
ChatReady_started(book) == book.vector_status # "pending"

\* line 684: book.get("vector_status") != "completed" is turned away.
ChatReady(book) == book.vector_status = "completed"

\* send_book_message, lines 678-688: 404 without the book, 400 unless the
\* book's vector_status is completed.
ChatFind(p) ==
  LET l == loc[p]
      book == FindBook(l.book_id)
  IN
  /\ l.pc = "c_find"
  /\ loc' = [loc EXCEPT ![p] =
       IF book = NoBook THEN Answered(l, "http_404")
       ELSE IF ~ChatReady(book) THEN Answered(l, "http_400")
       ELSE [l EXCEPT !.pc = "c_user"]]
  /\ UNCHANGED <<books, book_chunks, points, chat_messages, text, collection, init_rag, embRev, now, frontend>>

\* An insert that puts the new message in front of the transcript.
InsertOne_front(coll, doc) == <<doc>> \o coll

\* db.chat_messages.insert_one(doc): the document is added to the collection.
InsertOne(coll, doc) == Append(coll, doc)

\* lines 690-698: the user's message is stored.
ChatSaveUser(p) ==
  LET l == loc[p] IN
  /\ l.pc = "c_user"
  /\ chat_messages' = InsertOne(chat_messages,
        [book_id |-> l.book_id, sender |-> "user", content |-> l.query, req |-> l.req])
  /\ loc' = [loc EXCEPT ![p].pc = "c_embed"]
  /\ UNCHANGED <<books, book_chunks, points, text, collection, init_rag, embRev, now, frontend>>

\* generate_response, lines 508-515: any exception becomes an apology.
ErrorReply(l) == [l EXCEPT !.pc = "c_ai", !.response = "error", !.context_chunks = <<>>,
                           !.search_results = <<>>, !.embeddings = <<>>]

\* search_similar, line 327: create_single_embedding(query), one batch.
ChatEmbedQuery(p) ==
  LET l == loc[p] IN
  /\ l.pc = "c_embed"
  /\ \/ loc' = [loc EXCEPT ![p] = [ErrorReply(l) EXCEPT !.embedCalls = @ + 1]]
     \/ loc' = [loc EXCEPT ![p] =
          [l EXCEPT !.embeddings = Extend(<<>>, BackendEmbed(Batch(<<l.query>>, 0), embRev)),
                    !.embedCalls = @ + 1, !.pc = "c_search"]]
  /\ UNCHANGED <<books, book_chunks, points, chat_messages, text, collection, init_rag, embRev, now, frontend>>

\* generate_response without the test of line 464.
NoResults_ignored(search_results) == FALSE

\* line 464: if not search_results
NoResults(search_results) == search_results = <<>>

\* search_similar, lines 330-359, then generate_response, lines 464-473:
\* the fixed reply when nothing was found, else the context is built.
ChatSearch(p) ==
  LET l == loc[p]
      search_results == Search(points, l.embeddings[1], l.book_id,
                               max_context_chunks, similarity_threshold)
  IN
  /\ l.pc = "c_search"
  /\ \/ loc' = [loc EXCEPT ![p] = ErrorReply(l)]
     \/ loc' = [loc EXCEPT ![p] =
          IF NoResults(search_results)
          THEN [l EXCEPT !.pc = "c_ai", !.response = "not_found", !.embeddings = <<>>]
          ELSE [l EXCEPT !.pc = "c_llm", !.embeddings = <<>>,
                         !.search_results = search_results,
                         !.context_chunks = _build_context(search_results)]]
  /\ UNCHANGED <<books, book_chunks, points, chat_messages, text, collection, init_rag, embRev, now, frontend>>

\* generate_response, lines 476-506: the prompt is built (a read of
\* db.books), the completion backend is called, the reply post-processed.
ChatCompletion(p) ==
  LET l == loc[p] IN
  /\ l.pc = "c_llm"
  /\ \/ loc' = [loc EXCEPT ![p] = [ErrorReply(l) EXCEPT !.completionCalls = @ + 1]]
     \/ loc' = [loc EXCEPT ![p] = [l EXCEPT !.pc = "c_ai", !.response = "answer",
                                            !.search_results = <<>>,
                                            !.completionCalls = @ + 1]]
  /\ UNCHANGED <<books, book_chunks, points, chat_messages, text, collection, init_rag, embRev, now, frontend>>

\* send_book_message, lines 708-728: the reply is stored and returned.
ChatSaveAi(p) ==
  LET l == loc[p] IN
  /\ l.pc = "c_ai"
  /\ chat_messages' = InsertOne(chat_messages,
        [book_id |-> l.book_id, sender |-> "ai", content |-> l.response, req |-> l.req])
  /\ loc' = [loc EXCEPT ![p] = [Answered(l, "http_200") EXCEPT !.response = l.response]]
  /\ UNCHANGED <<books, book_chunks, points, text, collection, init_rag, embRev, now, frontend>>

\* The operator of the embedding backend moves it to another model revision.
BackendUpgrade ==
  /\ embRev = 1
  /\ embRev' = 2
  /\ UNCHANGED <<books, book_chunks, points, chat_messages, text, collection, init_rag, now, loc, frontend>>

Next ==
  \/ \E p \in Procs, b \in BookIds, f \in BOOLEAN : VectorizeCall(p, b, f)
  \/ \E p \in Procs : VectorizeFind(p)
  \/ \E p \in Procs : VectorizeSetProcessing(p)
  \/ \E p \in Procs : VectorizeGetChunks(p)
  \/ \E p \in Procs : VectorizeCreateChunks(p)
  \/ \E p \in Procs : VectorizeEmbedBatch(p)
  \/ \E p \in Procs : VectorizeUpsert(p)
  \/ \E p \in Procs : VectorizeSetVectorId(p)
  \/ \E p \in Procs : VectorizeComplete(p)
  \/ \E p \in Procs : VectorizeExcept(p)
  \/ \E p \in Procs, b \in BookIds, q \in Queries : ChatCall(p, b, q)
  \/ \E p \in Procs : ChatFind(p)
  \/ \E p \in Procs : ChatSaveUser(p)
  \/ \E p \in Procs : ChatEmbedQuery(p)
  \/ \E p \in Procs : ChatSearch(p)
  \/ \E p \in Procs : ChatCompletion(p)
  \/ \E p \in Procs : ChatSaveAi(p)
  \/ BackendUpgrade

Spec == Init /\ [][Next]_vars

\* ------------------------------------------------- a fresh deployment
\* scripts/init_rag.py: initialize_collection, lines 235-255.  The
\* collection is created with the configured vector size only when no
\* collection of that name exists; an existing one is not looked at.  Any
\* exception of the Qdrant client is logged and raised again.  The script
\* can be run again after it has failed.
InitializeCollection ==
  /\ init_rag \in {"pending", "raised"}
  /\ \/ /\ init_rag' = "raised"
        /\ UNCHANGED collection
     \/ /\ init_rag' = "done"
        /\ collection' = IF collection = {} THEN {embedding_dimension} ELSE collection
  /\ UNCHANGED <<books, book_chunks, points, chat_messages, text, embRev, now, loc, frontend>>

\* The vector sizes a collection left by an earlier deployment can have.
VectorSizes == {embedding_dimension, embedding_dimension + 1}

\* A deployment before init_rag.py has run: Qdrant holds no collection or
\* one that an earlier deployment created, and EMBEDDING_MODEL names a model
\* whose vectors have the configured length (revision 1) or not (revision 3).
InitDeploy ==
  /\ text \in [Books -> Texts]
  /\ books = [b \in Books |-> NewBook]
  /\ book_chunks = <<>>
  /\ points = <<>>
  /\ chat_messages = <<>>
  /\ collection \in {{}} \cup {{size} : size \in VectorSizes}
  /\ init_rag = "pending"
  /\ embRev \in {1, 3}
  /\ now = 0
  /\ initialState
  /\ loc = [p \in Procs |-> Idle]

\* The initialisation script and vectorization requests.
NextDeploy ==
  \/ InitializeCollection
  \/ \E p \in Procs, b \in BookIds, f \in BOOLEAN : VectorizeCall(p, b, f)
  \/ \E p \in Procs : VectorizeFind(p)
  \/ \E p \in Procs : VectorizeSetProcessing(p)
  \/ \E p \in Procs : VectorizeGetChunks(p)
  \/ \E p \in Procs : VectorizeCreateChunks(p)
  \/ \E p \in Procs : VectorizeEmbedBatch(p)
  \/ \E p \in Procs : VectorizeUpsert(p)
  \/ \E p \in Procs : VectorizeSetVectorId(p)
  \/ \E p \in Procs : VectorizeComplete(p)
  \/ \E p \in Procs : VectorizeExcept(p)

SpecDeploy == InitDeploy /\ [][NextDeploy]_vars

\* ------------------------------------------------ one request at a time
\* A client that waits for the answer to a request before it sends the next
\* one: a retry is issued after the failed run has returned.
NextRetry ==
  \/ \E p \in Procs, b \in BookIds, f \in BOOLEAN :
       /\ \A q \in Procs : loc[q].pc = "idle"
       /\ VectorizeCall(p, b, f)
  \/ \E p \in Procs : VectorizeFind(p)
  \/ \E p \in Procs : VectorizeSetProcessing(p)
  \/ \E p \in Procs : VectorizeGetChunks(p)
  \/ \E p \in Procs : VectorizeCreateChunks(p)
  \/ \E p \in Procs : VectorizeEmbedBatch(p)
  \/ \E p \in Procs : VectorizeUpsert(p)
  \/ \E p \in Procs : VectorizeSetVectorId(p)
  \/ \E p \in Procs : VectorizeComplete(p)
  \/ \E p \in Procs : VectorizeExcept(p)
  \/ BackendUpgrade

SpecRetry == Init /\ [][NextRetry]_vars

\* ------------------------------------------- the browser application
\* frontend/src/context/AppContext.js.  Date.now() is followed up to
\* MaxClock ticks.
MaxClock == 4
\* notification.duration || 5000, in ticks.
default_duration == 2
\* A property that the caller's object does not have.
undefined == 0 - 1
\* The texts of the notifications; the pages pass {message, severity}.
Messages == {"m1", "m2"}
\* The objects passed to addNotification: with or without an id of the
\* caller's, autoHide false or not, with or without a duration.
Payloads ==
  [message : Messages, id : {undefined, 100}, autoHide : BOOLEAN, duration : {undefined, 1}]

\* appReducer, ADD_NOTIFICATION, lines 75-82: {id: Date.now(), ...payload}.
ADD_NOTIFICATION(state, payload) ==
  Append(state, [id |-> IF payload.id = undefined THEN clock ELSE payload.id,
                 message |-> payload.message])

\* appReducer, REMOVE_NOTIFICATION, lines 84-88: filter(n => n.id !== payload).
REMOVE_NOTIFICATION(state, payload) == SelectSeq(state, LAMBDA n : n.id # payload)

\* addNotification, lines 138-147: the notification is dispatched and, unless
\* autoHide is false, a timer is set for duration || 5000 from now.
addNotification(notification) ==
  /\ \A k \in 1..Len(notifications) : notifications[k].message # notification.message
  /\ \A t \in timers : t.notification.message # notification.message
  /\ notifications' = ADD_NOTIFICATION(notifications, notification)
  /\ timers' = IF notification.autoHide
               THEN timers \cup {[due |-> clock + (IF notification.duration = undefined
                                                    THEN default_duration
                                                    ELSE notification.duration),
                                  notification |-> notification]}
               ELSE timers
  /\ UNCHANGED <<backend, clock>>

\* The callback of setTimeout, line 144, run when its delay has passed:
\* dispatch REMOVE_NOTIFICATION with notification.id || Date.now().
TimerFires(t) ==
  /\ t \in timers
  /\ clock >= t.due
  /\ notifications' = REMOVE_NOTIFICATION(notifications,
                        IF t.notification.id # undefined THEN t.notification.id ELSE clock)
  /\ timers' = timers \ {t}
  /\ UNCHANGED <<backend, clock>>

\* removeNotification, lines 149-151: the user closes a notification.
removeNotification(id) ==
  /\ \E k \in 1..Len(notifications) : notifications[k].id = id
  /\ notifications' = REMOVE_NOTIFICATION(notifications, id)
  /\ UNCHANGED <<backend, timers, clock>>

\* Time passes.
Tick ==
  /\ clock < MaxClock
  /\ clock' = clock + 1
  /\ UNCHANGED <<backend, notifications, timers>>

\* The application has just been loaded; the backend is not used.
InitNotify == Init /\ text = [b \in Books |-> <<>>]

NextNotify ==
  \/ \E notification \in Payloads : addNotification(notification)
  \/ \E t \in timers : TimerFires(t)
  \/ \E id \in 0..100 : removeNotification(id)
  \/ Tick

SpecNotify == InitNotify /\ [][NextNotify]_vars

\* ---------------------------------------------- two books, both indexed
TwoBooks == {"B1", "B2"}

\* The chunks an earlier vectorize_book(b) run, request number req, stored.
IndexedChunksAt(b, txt, req) ==
  LET chunks == split_text_into_chunks(txt, b, req)
  IN  [k \in 1..Len(chunks) |-> [chunks[k] EXCEPT !.vector_id = chunks[k].id]]
IndexedPointsAt(b, txt, req) ==
  LET chunks == IndexedChunksAt(b, txt, req)
  IN  MakePoints(chunks, BackendEmbed([k \in 1..Len(chunks) |-> chunks[k].content], 1))

\* Two books vectorized by earlier runs share the one Qdrant collection.
InitSearch ==
  /\ text \in [TwoBooks -> {t \in Texts : split_text(t) # <<>>}]
  /\ books = [b \in TwoBooks |-> IndexedBook(b, text[b])]
  /\ book_chunks = IndexedChunksAt("B1", text["B1"], 0) \o IndexedChunksAt("B2", text["B2"], -1)
  /\ points = IndexedPointsAt("B1", text["B1"], 0) \o IndexedPointsAt("B2", text["B2"], -1)
  /\ chat_messages = <<>>
  /\ collection = {embedding_dimension}
  /\ init_rag = "done"
  /\ embRev = 1
  /\ now = 0
  /\ initialState
  /\ loc = [p \in Procs |-> Idle]

\* Chat requests on either book.
NextSearch ==
  \/ \E p \in Procs, b \in TwoBooks, q \in Queries : ChatCall(p, b, q)
  \/ \E p \in Procs : ChatFind(p)
  \/ \E p \in Procs : ChatSaveUser(p)
  \/ \E p \in Procs : ChatEmbedQuery(p)
  \/ \E p \in Procs : ChatSearch(p)
  \/ \E p \in Procs : ChatCompletion(p)
  \/ \E p \in Procs : ChatSaveAi(p)

SpecSearch == InitSearch /\ [][NextSearch]_vars

\* ------------------------------------------------- DELETE /vectors/{id}
\* A delete-by-filter that leaves the filter out.
DeleteByBook_all(coll, book_id) == <<>>

\* deleteByBook(bookId): the vectors whose payload names the book are removed.
DeleteByBook(coll, book_id) == SelectSeq(coll, LAMBDA pt : pt.payload.book_id # book_id)

\* The chunk rows of the book are removed.
DeleteChunksOf(coll, book_id) == SelectSeq(coll, LAMBDA c : c.book_id # book_id)

\* DELETE /vectors/{book_id} is received by handler p.
DeleteCall(p, b) ==
  /\ loc[p].pc = "idle"
  /\ now < MaxCalls
  /\ now' = now + 1
  /\ loc' = [loc EXCEPT ![p] = [Idle EXCEPT !.op = "delete", !.pc = "d_delete",
                                            !.book_id = b, !.req = now + 1]]
  /\ UNCHANGED <<books, book_chunks, points, chat_messages, text, collection, init_rag, embRev, frontend>>

\* delete_book_vectors: the book's chunks and vectors are purged; a book
\* without any is left as it is, and the call succeeds.
delete_book_vectors(p) ==
  LET l == loc[p] IN
  /\ l.pc = "d_delete"
  /\ book_chunks' = DeleteChunksOf(book_chunks, l.book_id)
  /\ points' = DeleteByBook(points, l.book_id)
  /\ loc' = [loc EXCEPT ![p] = Answered(l, "http_200")]
  /\ UNCHANGED <<books, chat_messages, text, collection, init_rag, embRev, now, frontend>>

\* Chat and delete requests on two indexed books and on an unknown one.
NextDelete ==
  \/ \E p \in Procs, b \in TwoBooks \cup {"B0"} : DeleteCall(p, b)
  \/ \E p \in Procs : delete_book_vectors(p)
  \/ \E p \in Procs, b \in TwoBooks, q \in Queries : ChatCall(p, b, q)
  \/ \E p \in Procs : ChatFind(p)
  \/ \E p \in Procs : ChatSaveUser(p)
  \/ \E p \in Procs : ChatEmbedQuery(p)
  \/ \E p \in Procs : ChatSearch(p)
  \/ \E p \in Procs : ChatCompletion(p)
  \/ \E p \in Procs : ChatSaveAi(p)

SpecDelete == InitSearch /\ [][NextDelete]_vars

\* ------------------------------------------- two books, all operations
\* Book B1 has just been uploaded; book B2, of one chunk, has been
\* vectorized by an earlier run.
InitTwo ==
  /\ text \in {t \in [TwoBooks -> Texts] : split_text(t["B1"]) # <<>> /\ t["B2"] = <<"bb">>}
  /\ books = [b \in TwoBooks |-> IF b = "B2" THEN IndexedBook(b, text[b]) ELSE NewBook]
  /\ book_chunks = IndexedChunksAt("B2", text["B2"], 0)
  /\ points = IndexedPointsAt("B2", text["B2"], 0)
  /\ chat_messages = <<>>
  /\ collection = {embedding_dimension}
  /\ init_rag = "done"
  /\ embRev = 1
  /\ now = 0
  /\ initialState
  /\ loc = [p \in Procs |-> Idle]

\* Vectorize, chat and delete requests on either book.
NextTwo ==
  \/ \E p \in Procs, b \in TwoBooks, f \in BOOLEAN : VectorizeCall(p, b, f)
  \/ \E p \in Procs : VectorizeFind(p)
  \/ \E p \in Procs : VectorizeSetProcessing(p)
  \/ \E p \in Procs : VectorizeGetChunks(p)
  \/ \E p \in Procs : VectorizeCreateChunks(p)
  \/ \E p \in Procs : VectorizeEmbedBatch(p)
  \/ \E p \in Procs : VectorizeUpsert(p)
  \/ \E p \in Procs : VectorizeSetVectorId(p)
  \/ \E p \in Procs : VectorizeComplete(p)
  \/ \E p \in Procs : VectorizeExcept(p)
  \/ \E p \in Procs, b \in TwoBooks, q \in Queries : ChatCall(p, b, q)
  \/ \E p \in Procs : ChatFind(p)
  \/ \E p \in Procs : ChatSaveUser(p)
  \/ \E p \in Procs : ChatEmbedQuery(p)
  \/ \E p \in Procs : ChatSearch(p)
  \/ \E p \in Procs : ChatCompletion(p)
  \/ \E p \in Procs : ChatSaveAi(p)
  \/ \E p \in Procs, b \in TwoBooks : DeleteCall(p, b)
  \/ \E p \in Procs : delete_book_vectors(p)

SpecTwo == InitTwo /\ [][NextTwo]_vars

\* ------------------------------------------------------------- claims
\* Handler p takes a step.
Steps(p) == loc'[p] # loc[p]
\* The steps of vectorize_book after the status has been set to processing.
PipelineSteps == {"v_chunks", "v_create", "v_embed", "v_upsert", "v_setvec", "v_complete"}
Running(p, b) ==
  loc[p].op = "vectorize" /\ loc[p].book_id = b /\ loc[p].pc \in PipelineSteps

\* C1: every change of a book's vector_status is one of pending->processing,
\* processing->completed, processing->failed, failed->processing,
\* completed->processing.
LegalTransitions ==
  { <<"pending", "processing">>, <<"processing", "completed">>,
    <<"processing", "failed">>, <<"failed", "processing">>,
    <<"completed", "processing">> }
C1_StateMachineLegality ==
  [][\A b \in Books :
       books'[b].vector_status # books[b].vector_status
         => <<books[b].vector_status, books'[b].vector_status>> \in LegalTransitions]_vars

\* C2: at most one vectorize_book call per book is past the status check and
\* executing the segment/embed/upsert steps.
C2_OnePipelinePerBook ==
  \A b \in Books : Cardinality({p \in Procs : Running(p, b)}) <= 1

\* C3: a vectorize call that finds the book processing answers Conflict at
\* once and leaves the status record, the chunk store and the index alone.
C3_ConflictWhileProcessing ==
  [][\A p \in Procs :
       ( /\ loc[p].pc = "v_find"
         /\ Steps(p)
         /\ loc[p].book_id \in Books
         /\ books[loc[p].book_id].vector_status = "processing" )
       => /\ loc'[p].pc = "idle"
          /\ loc'[p].result = "Conflict"
          /\ UNCHANGED <<books, book_chunks, points>>]_vars

\* C4: a chat request that finds the book pending or processing is answered
\* with the not-ready error (HTTP 400) in that very step, having made no call
\* to the embedding backend and none to the completion backend.
C4_FailFastNotReady ==
  [][\A p \in Procs :
       ( /\ loc[p].pc = "c_find"
         /\ Steps(p)
         /\ loc[p].book_id \in Books
         /\ books[loc[p].book_id].vector_status \in {"pending", "processing"} )
       => /\ loc'[p].pc = "idle"
          /\ loc'[p].result = "http_400"
          /\ loc'[p].embedCalls = 0
          /\ loc'[p].completionCalls = 0
          /\ UNCHANGED <<books, book_chunks, points, chat_messages>>]_vars
\* A chat request was turned away while the book is being vectorized.
C4_Witness ==
  \E p \in Procs :
    /\ loc[p].op = "chat" /\ loc[p].result = "http_400"
    /\ loc[p].book_id \in Books
    /\ books[loc[p].book_id].vector_status = "processing"

\* C5: a chat request embeds its query, searches the index and calls the
\* completion backend only while the book's vector_status is completed.
C5_ServedOnlyWhenCompleted ==
  [][\A p \in Procs :
       (loc[p].pc \in {"c_embed", "c_search", "c_llm"} /\ Steps(p))
       => books[loc[p].book_id].vector_status = "completed"]_vars

\* C6: an unforced vectorize call that finds the book completed answers
\* completed and changes nothing; any other call on a book sets processing
\* and started_at next, and only then enters the pipeline.
C6_NoOpOrProcessingFirst ==
  [][\A p \in Procs :
       /\ ( loc[p].pc = "v_find" /\ Steps(p) /\ loc[p].book_id \in Books )
          => IF ~loc[p].force /\ books[loc[p].book_id].vector_status = "completed"
             THEN /\ loc'[p].pc = "idle"
                  /\ loc'[p].result = "completed"
                  /\ loc'[p].embedCalls = 0
                  /\ UNCHANGED <<books, book_chunks, points>>
             ELSE loc'[p].pc = "v_setproc"
       /\ ( loc[p].pc = "v_setproc" /\ Steps(p) )
          => /\ books'[loc[p].book_id].vector_status = "processing"
             /\ books'[loc[p].book_id].vectorize_started_at = now
             /\ loc'[p].pc = "v_chunks"
       /\ ( loc'[p].pc \in PipelineSteps /\ loc[p].pc \notin PipelineSteps )
          => loc[p].pc = "v_setproc"]_vars
\* An unforced call has answered completed without a single embedding call,
\* while a forced call on the same book is being set up.
C6_Witness ==
  \E p, q \in Procs :
    /\ loc[p].op = "vectorize" /\ loc[p].pc = "idle" /\ loc[p].result = "completed"
    /\ loc[p].embedCalls = 0
    /\ loc[q].op = "vectorize" /\ loc[q].pc = "v_chunks" /\ loc[q].force
    /\ loc[q].book_id = loc[p].book_id

\* C7: a vectorize_book call in which a step has raised goes nowhere but to
\* the except branch, which sets vector_status to failed, records the error
\* and re-raises; the call does not answer completed.
C7_FailureRecorded ==
  [][\A p \in Procs :
       /\ ( loc[p].op = "vectorize" /\ loc[p].err # None ) => loc[p].pc = "v_except"
       /\ ( loc[p].pc = "v_except" /\ Steps(p) )
          => /\ loc'[p].pc = "idle"
             /\ loc'[p].result = "raised"
             /\ loc[p].book_id \in Books
                  => /\ books'[loc[p].book_id].vector_status = "failed"
                     /\ books'[loc[p].book_id].vectorize_error = loc[p].err]_vars
\* A call has raised after a failed embedding or index write and the status
\* record carries the failure.
C7_Witness ==
  \E p \in Procs :
    /\ loc[p].op = "vectorize" /\ loc[p].result = "raised"
    /\ loc[p].book_id \in Books
    /\ books[loc[p].book_id].vector_status = "failed"
    /\ books[loc[p].book_id].vectorize_error \in {"embed", "upsert"}

\* C8: a book whose text yields no chunk is never completed, and every
\* vectorize call on it raises.
C8_EmptyTextFails ==
  \A b \in Books :
    split_text(text[b]) = <<>>
      => /\ books[b].vector_status # "completed"
         /\ \A p \in Procs :
              ( loc[p].op = "vectorize" /\ loc[p].book_id = b
                /\ loc[p].pc = "idle" /\ loc[p].result # None )
              => loc[p].result = "raised"
\* A run on a book of white space only has ended failed on the empty insert.
C8_Witness ==
  \E b \in Books :
    /\ text[b] # <<>> /\ split_text(text[b]) = <<>>
    /\ books[b].vector_status = "failed"
    /\ books[b].vectorize_error = "TypeError"

\* C9: after an upsert every upserted point is stored exactly once under its
\* id, with the vector and payload just written.
C9_IdempotentUpsert ==
  [][\A p \in Procs :
       ( loc[p].pc = "v_upsert" /\ loc'[p].pc \in {"v_setvec", "v_complete"} )
       => LET pts == MakePoints(loc[p].chunks, loc[p].embeddings) IN
          \A k \in 1..Len(pts) :
            /\ Cardinality({m \in 1..Len(points') : points'[m].id = pts[k].id}) = 1
            /\ \E m \in 1..Len(points') : points'[m] = pts[k]]_vars
\* Two runs have upserted the same chunk ids with different vectors.
C9_Witness ==
  \E p, q \in Procs :
    /\ p # q
    /\ loc[p].pc \in {"v_setvec", "v_complete"}
    /\ loc[q].pc \in {"v_setvec", "v_complete"}
    /\ loc[p].chunks # <<>>
    /\ loc[q].chunks # <<>>
    /\ loc[p].chunks[1].id = loc[q].chunks[1].id
    /\ loc[p].embeddings # loc[q].embeddings

\* C10: when create_embeddings returns, there is one vector per text and the
\* k-th vector is the embedding of the k-th text.
C10_OrderPreserved ==
  \A p \in Procs :
    /\ loc[p].pc = "v_upsert"
         => /\ Len(loc[p].embeddings) = Len(loc[p].chunks)
            /\ \A k \in 1..Len(loc[p].chunks) :
                 loc[p].embeddings[k].of = loc[p].chunks[k].content
    /\ loc[p].pc = "c_search"
         => /\ Len(loc[p].embeddings) = 1
            /\ loc[p].embeddings[1].of = loc[p].query
\* create_embeddings has returned after more than one backend call.
C10_Witness ==
  \E p \in Procs :
    /\ loc[p].pc = "v_upsert"
    /\ loc[p].embedCalls >= 2
    /\ Len(loc[p].embeddings) > batch_size

\* C11: the hits of a search are points of the requested book only, each
\* with a score of at least the threshold, in descending order of score, at
\* most top_k of them, and they are the best such points of the book.
C11_SearchFiltered ==
  [][\A p \in Procs :
       ( loc[p].pc = "c_search" /\ Steps(p) /\ loc'[p].response # "error" )
       => LET r == loc'[p].search_results
              qv == loc[p].embeddings[1]
              Mine == {m \in 1..Len(points) :
                         /\ points[m].payload.book_id = loc[p].book_id
                         /\ Score(qv, points[m].vector) >= similarity_threshold}
              Returned(m) == \E k \in 1..Len(r) : r[k].chunk_id = points[m].id
          IN  /\ Len(r) <= max_context_chunks
              /\ Len(r) = IF Cardinality(Mine) < max_context_chunks
                          THEN Cardinality(Mine) ELSE max_context_chunks
              /\ \A k \in 1..Len(r) :
                   \E m \in Mine : /\ points[m].id = r[k].chunk_id
                                   /\ points[m].payload.content = r[k].content
                                   /\ Score(qv, points[m].vector) = r[k].score
              /\ \A k \in 1..(Len(r) - 1) : r[k].score >= r[k + 1].score
              /\ \A j, k \in 1..Len(r) : r[j].chunk_id = r[k].chunk_id => j = k
              /\ \A m \in Mine :
                   ~Returned(m) => \A k \in 1..Len(r) :
                                     r[k].score >= Score(qv, points[m].vector)]_vars
\* A search has returned hits while a point of another book scores higher
\* than the best of them.
C11_Witness ==
  \E p \in Procs :
    /\ loc[p].pc = "c_llm"
    /\ loc[p].search_results # <<>>
    /\ \E m \in 1..Len(points) :
         /\ points[m].payload.book_id # loc[p].book_id
         /\ Similarity(loc[p].query, points[m].payload.content)
              > loc[p].search_results[1].score

\* The total content length of a list of context chunks.
RECURSIVE ContextLength(_)
ContextLength(context_chunks) ==
  IF context_chunks = <<>> THEN 0
  ELSE StrLen(Head(context_chunks).content) + ContextLength(Tail(context_chunks))
\* The budgets the context of a list of hits is computed for.
Budgets == 0..(max_context_length + 2)

\* C12: the chunks the context assembler returns for the hits of a search
\* have a total content length of at most max_context_length, and of at most
\* any other budget the assembler is given for the same hits.
C12_ContextBudget ==
  \A p \in Procs :
    loc[p].pc = "c_llm"
    => /\ ContextLength(loc[p].context_chunks) <= max_context_length
       /\ \A max_length \in Budgets :
            ContextLength(BuildContextFrom(loc[p].search_results, 0, max_length))
              <= max_length
\* The assembler has dropped a hit that did not fit after taking one that did.
C12_Witness ==
  \E p \in Procs :
    /\ loc[p].pc = "c_llm"
    /\ loc[p].context_chunks # <<>>
    /\ Len(loc[p].context_chunks) < Len(loc[p].search_results)

C14_BoundedRetry ==
  [][\A p \in Procs :
       ( loc[p].pc = "v_embed" /\ loc'[p].pc = "v_except" )
       => /\ loc'[p].embedCalls - (loc[p].i \div batch_size) >= 2
          /\ loc'[p].err = "RetriesExhausted"]_vars

\* C15: the embedding of a list of texts is all or nothing: the steps after
\* it hold one vector for every chunk, a failed embedding leaves the caller
\* no vector at all, and a failing batch writes nothing to the index.
C15_EmbedAllOrNothing ==
  [][\A p \in Procs :
       /\ ( loc[p].pc = "v_embed" /\ loc'[p].pc = "v_upsert" )
          => /\ Len(loc'[p].embeddings) = Len(loc'[p].chunks)
             /\ \A k \in 1..Len(loc'[p].chunks) :
                  loc'[p].embeddings[k].of = loc'[p].chunks[k].content
       /\ ( loc[p].pc = "v_embed" /\ Steps(p) /\ loc'[p].pc # "v_upsert" )
          => \/ loc'[p].pc = "v_embed" /\ Len(loc'[p].embeddings) < Len(loc'[p].chunks)
             \/ /\ loc'[p].pc = "v_except"
                /\ loc'[p].embeddings = <<>>
                /\ points' = points]_vars
\* The second batch of a book has failed after the first one succeeded, and
\* the caller holds no vector.
C15_Witness ==
  \E p \in Procs :
    /\ loc[p].pc = "v_except"
    /\ loc[p].err = "embed"
    /\ loc[p].embedCalls >= 2
    /\ loc[p].embeddings = <<>>

\* C16: every vector stored in the index has exactly the configured
\* embedding dimension, and a request whose backend vectors have another
\* dimension stores nothing.
C16_StoredDimension ==
  /\ \A m \in 1..Len(points) : Dim(points[m].vector) = embedding_dimension
  /\ \A p \in Procs :
       ( /\ loc[p].pc \in {"v_setvec", "v_complete"}
         /\ \E k \in 1..Len(loc[p].embeddings) :
              Dim(loc[p].embeddings[k]) # embedding_dimension )
       => FALSE

\* C17: initialize_collection creates the collection only when it is
\* absent, never alters an existing one, and does not return successfully
\* when the existing collection's vector size is not the configured one.
C17_EnsureCollection ==
  [][/\ ( init_rag # "done" /\ init_rag' = "done" )
        => /\ collection = {} => collection' = {embedding_dimension}
           /\ collection # {} => collection' = collection
           /\ collection \in {{}, {embedding_dimension}}
     /\ init_rag' = "raised" => collection' = collection]_vars

\* The number of chunks of book b whose vectors are in the index.
IndexedCount(b) ==
  Cardinality({ch \in {book_chunks[k] : k \in 1..Len(book_chunks)} :
                 /\ ch.book_id = b
                 /\ \E m \in 1..Len(points) : points[m].id = ch.id})
\* The number of chunks of book b.
TotalChunks(b) ==
  Cardinality({k \in 1..Len(book_chunks) : book_chunks[k].book_id = b})

\* C18: while a book is processing, the stored count of processed chunks
\* (chunk_count, the only count get_vector_status reports) equals the number
\* of the book's chunks whose vectors are in the index.
C18_ProgressAccurate ==
  \A b \in DOMAIN books :
    books[b].vector_status = "processing" => books[b].chunk_count = IndexedCount(b)

\* C19: within a run the stored count of processed chunks never decreases
\* and never exceeds the number of the book's chunks, and a step that starts
\* a run resets it to 0.
C19_ProgressMonotone ==
  [][\A b \in DOMAIN books :
       /\ ( books[b].vector_status = "processing" /\ books'[b].vector_status = "processing" )
          => books'[b].chunk_count >= books[b].chunk_count
       /\ books'[b].vector_status = "processing"
          => books'[b].chunk_count <= TotalChunks(b)'
       /\ ( books[b].vector_status # "processing" /\ books'[b].vector_status = "processing" )
          => books'[b].chunk_count = 0]_vars

\* C20: the status record of a book carries an error message only while the
\* book is failed.
C20_ErrorOnlyWhenFailed ==
  \A b \in DOMAIN books :
    books[b].vector_status # "failed" => books[b].vectorize_error = None

\* The chunk rows of book b.
ChunkRows(b) == SelectSeq(book_chunks, LAMBDA row : row.book_id = b)

\* C21: when a run that follows a failed run completes, the book has
\* exactly one chunk row per chunk index and exactly one vector per chunk,
\* whose id is the chunk's id, which the chunk row records as its vector_id.
C21_RetryOverwrites ==
  \A b \in DOMAIN books :
    books[b].vector_status = "completed"
    => LET rows == ChunkRows(b) IN
       /\ \A j, k \in 1..Len(rows) : rows[j].chunk_index = rows[k].chunk_index => j = k
       /\ \A k \in 1..Len(rows) :
            /\ rows[k].vector_id = rows[k].id
            /\ Cardinality({m \in 1..Len(points) : points[m].id = rows[k].id}) = 1
       /\ \A m \in 1..Len(points) :
            points[m].payload.book_id = b
            => \E k \in 1..Len(rows) :
                 /\ rows[k].id = points[m].id
                 /\ rows[k].content = points[m].payload.content
       /\ Len(rows) = Len(split_text(text[b]))
\* A run has completed after a forced run on the indexed book had failed
\* and left the old chunk rows and vectors in place; the vectors were written
\* again, with the backend's new revision.
C21_Witness ==
  \E b \in DOMAIN books :
    /\ books[b].vector_status = "completed"
    /\ books[b].vectorize_error \in {"embed", "upsert"}
    /\ points # <<>>
    /\ \A m \in 1..Len(points) : points[m].vector.rev = 2
    /\ \E k \in 1..Len(book_chunks) : book_chunks[k].id[1] = 0

\* C22: a chat request whose query embedding, search or completion has
\* failed is answered with an error, not with a successful reply, and leaves
\* no message of that request in the chat transcript.
C22_ChatFailureNotPersisted ==
  [][\A p \in Procs :
       ( /\ loc[p].op = "chat" /\ loc[p].response = "error"
         /\ Steps(p) /\ loc'[p].pc = "idle" )
       => /\ loc'[p].result # "http_200"
          /\ \A k \in 1..Len(chat_messages') : chat_messages'[k].req # loc[p].req]_vars

\* C23: a vectorize call that has started a run returns while the run is
\* still in progress: at the step at which it returns a status, the book is
\* processing.
C23_AsynchronousCompletion ==
  [][\A p \in Procs :
       ( /\ loc[p].op = "vectorize" /\ loc[p].pc \in PipelineSteps
         /\ loc'[p].pc = "idle" /\ loc'[p].result = "completed" )
       => books'[loc[p].book_id].vector_status = "processing"]_vars

\* C24: a delete of book b removes every chunk row and every vector of b,
\* leaves the rows and vectors of every other book as they are, and
\* succeeds, also when b has no chunks or vectors (any more).
C24_DeleteByBook ==
  [][\A p \in Procs :
       ( loc[p].op = "delete" /\ loc[p].pc = "d_delete" /\ Steps(p) )
       => LET b == loc[p].book_id
              OthersOf(coll) == SelectSeq(coll, LAMBDA c : c.book_id # b)
              OtherPoints(coll) == SelectSeq(coll, LAMBDA pt : pt.payload.book_id # b)
          IN  /\ \A k \in 1..Len(book_chunks') : book_chunks'[k].book_id # b
              /\ \A m \in 1..Len(points') : points'[m].payload.book_id # b
              /\ OthersOf(book_chunks') = OthersOf(book_chunks)
              /\ OtherPoints(points') = OtherPoints(points)
              /\ books' = books
              /\ loc'[p].result = "http_200"]_vars
\* Book B1 has been deleted twice, both calls have succeeded, and the
\* chunks and vectors of the other book are still there.
C24_Witness ==
  /\ \A p \in Procs : /\ loc[p].op = "delete" /\ loc[p].book_id = "B1"
                      /\ loc[p].result = "http_200"
  /\ \A m \in 1..Len(points) : points[m].payload.book_id = "B2"
  /\ Len(points) = Len(split_text(text["B2"]))
  /\ Len(book_chunks) = Len(points)
  /\ points # <<>>

\* context is the longest prefix of the hits that fits into max_length,
\* each hit with its whole content and its score.
FittingPrefix(context, hits, max_length) ==
  /\ Len(context) <= Len(hits)
  /\ \A k \in 1..Len(context) :
       /\ context[k].content = hits[k].content
       /\ context[k].relevance_score = hits[k].score
  /\ ContextLength(context) <= max_length
  /\ Len(context) < Len(hits)
     => ContextLength(context) + StrLen(hits[Len(context) + 1].content) > max_length

\* C25: the context assembled for the hits of a search is a prefix of the
\* ranked hit list, every hit with its unmodified content and its score,
\* ending before the first hit that would pass the budget; this holds for
\* the configured budget and for any other.
C25_ContextIsPrefix ==
  \A p \in Procs :
    loc[p].pc = "c_llm"
    => /\ FittingPrefix(loc[p].context_chunks, loc[p].search_results, max_context_length)
       /\ \A max_length \in Budgets :
            FittingPrefix(BuildContextFrom(loc[p].search_results, 0, max_length),
                          loc[p].search_results, max_length)
\* The configured budget has cut the hit list, and under a smaller budget
\* the assembler stops at a hit although a later, shorter one would fit.
C25_Witness ==
  \E p \in Procs :
    /\ loc[p].pc = "c_llm"
    /\ Len(loc[p].context_chunks) < Len(loc[p].search_results)
    /\ \E max_length \in Budgets :
         LET hits == loc[p].search_results
             context == BuildContextFrom(hits, 0, max_length)
         IN  \E k \in (Len(context) + 2)..Len(hits) :
               ContextLength(context) + StrLen(hits[k].content) <= max_length

\* ------------------------------------------- a process that stops mid-run
\* The server process stops while handler p is between two awaits of a run
\* (lines 284-298): the handler's frame is lost, the stores keep what was
\* written, and the status record stays as the run left it.
Crash(p) ==
  /\ loc[p].op = "vectorize"
  /\ loc[p].pc \in PipelineSteps
  /\ loc' = [loc EXCEPT ![p] = Answered(loc[p], "crashed")]
  /\ UNCHANGED <<books, book_chunks, points, chat_messages, text, collection, init_rag, embRev, now, frontend>>

\* The errors of the backends: reading the book's file, the embedding
\* backend, the vector store.
BackendErrors == {"read", "embed", "upsert", "rejected"}
\* A step during which no backend fails.
Healthy == \A p \in Procs : loc'[p].err \notin BackendErrors

\* The steps of handler p's vectorize_book call.
VectorizeStep(p) ==
  \/ VectorizeFind(p)
  \/ VectorizeSetProcessing(p)
  \/ VectorizeGetChunks(p)
  \/ VectorizeCreateChunks(p)
  \/ VectorizeEmbedBatch(p)
  \/ VectorizeUpsert(p)
  \/ VectorizeSetVectorId(p)
  \/ VectorizeComplete(p)
  \/ VectorizeExcept(p)

\* A book whose text has chunks, new or vectorized by an earlier run.
InitResume == Init /\ split_text(text["B1"]) # <<>>

\* Vectorization requests with healthy backends, sent one after the other,
\* and process stops: the call that resumes a book is made after the stop.
NextResume ==
  \/ \E p \in Procs, b \in BookIds, f \in BOOLEAN :
       /\ \A q \in Procs : loc[q].pc = "idle"
       /\ VectorizeCall(p, b, f)
  \/ \E p \in Procs : VectorizeStep(p) /\ Healthy
  \/ \E p \in Procs : Crash(p)

\* asyncio runs every handler that is not waiting for a backend, and a
\* healthy backend answers: a handler that can take a step takes it.
SpecResume ==
  InitResume /\ [][NextResume]_vars /\ \A p \in Procs : WF_vars(VectorizeStep(p) /\ Healthy)

\* Handler p has received a vectorize call for book b, which a stopped run
\* has left processing.
Resuming(p, b) ==
  /\ loc[p].op = "vectorize" /\ loc[p].pc = "v_find" /\ loc[p].book_id = b
  /\ books[b].vector_status = "processing"
  /\ \E q \in Procs \ {p} : loc[q].result = "crashed" /\ loc[q].book_id = b

\* C26: a process stop in the middle of a run leaves the book processing,
\* and a later vectorize call for that book, unless it is stopped too, runs
\* the pipeline again: the book eventually is completed.
C26_Resumable ==
  /\ [][\A p \in Procs :
          loc'[p].result = "crashed" /\ loc[p].result # "crashed"
          => /\ books' = books
             /\ books[loc[p].book_id].vector_status = "processing"]_vars
  /\ \A p \in Procs : \A b \in Books :
       Resuming(p, b) ~> ( \/ books[b].vector_status = "completed"
                           \/ loc[p].result = "crashed" )
\* A run was stopped, the book was left processing, and a later call has
\* completed it.
C26_Witness ==
  \E p, q \in Procs : \E b \in Books :
    /\ loc[q].result = "crashed" /\ loc[q].book_id = b
    /\ loc[p].result = "completed" /\ loc[p].book_id = b
    /\ books[b].vector_status = "completed"
    /\ books[b].vectorize_started_at = 2

\* The chunk rows and the vectors of book b in a collection.
RowsOf(coll, b) == SelectSeq(coll, LAMBDA row : row.book_id = b)
PointsOf(coll, b) == SelectSeq(coll, LAMBDA pt : pt.payload.book_id = b)
\* The book of the request of which handler p takes a step.
BookOfStep(p) == IF loc[p].pc = "idle" THEN loc'[p].book_id ELSE loc[p].book_id

\* C27: a step of a vectorize, chat or delete request on one book leaves
\* the status record, the chunk rows and the vectors of every other book as
\* they are; and when two requests on different books have run side by side,
\* a book whose run has completed has the status, the chunk rows and the
\* vectors that the run leaves when it executes alone.
C27_BooksIndependent ==
  [][\A p \in Procs :
       Steps(p)
       => /\ \A c \in DOMAIN books \ {BookOfStep(p)} :
               /\ books'[c] = books[c]
               /\ RowsOf(book_chunks', c) = RowsOf(book_chunks, c)
               /\ PointsOf(points', c) = PointsOf(points, c)
          /\ ( /\ now' = 2
               /\ loc'[p].op = "vectorize" /\ loc'[p].result = "completed"
               /\ \A q \in Procs \ {p} :
                    loc'[q].op # "none" /\ loc'[q].book_id # loc'[p].book_id )
             => LET b == loc'[p].book_id IN
                \E req \in 0..2 :
                  /\ RowsOf(book_chunks', b) = IndexedChunksAt(b, text[b], req)
                  /\ PointsOf(points', b) = IndexedPointsAt(b, text[b], req)
                  /\ books'[b].vector_status = "completed"
                  /\ books'[b].chunk_count = Len(split_text(text[b]))]_vars
\* A run on B1 has completed while a run on B2 is in the middle of its
\* pipeline.
C27_Witness ==
  \E p, q \in Procs :
    /\ loc[p].op = "vectorize" /\ loc[p].book_id = "B1" /\ loc[p].result = "completed"
    /\ loc[q].op = "vectorize" /\ loc[q].book_id = "B2" /\ loc[q].pc = "v_upsert"
    /\ books["B1"].vector_status = "completed"
    /\ books["B2"].vector_status = "processing"
    /\ PointsOf(points, "B1") # <<>>

\* --------------------------------------------------- runs that are not
\* stopped.  Vectorization requests, backends that may fail, no process
\* stop; asyncio resumes every handler whose await has returned or raised.
NextLive ==
  \/ \E p \in Procs, b \in BookIds, f \in BOOLEAN : VectorizeCall(p, b, f)
  \/ \E p \in Procs : VectorizeStep(p)

SpecLive == Init /\ [][NextLive]_vars /\ \A p \in Procs : WF_vars(VectorizeStep(p))

MessagesOf(coll, req) == SelectSeq(coll, LAMBDA m : m.req = req)

\* C29: a step changes the transcript only by appending one message; a
\* chat request that has passed the readiness check appends its user
\* message first and its assistant message after it, one of each at most,
\* and a request that is turned away appends nothing.
C29_TranscriptAppendOnly ==
  [][/\ Len(chat_messages') \in {Len(chat_messages), Len(chat_messages) + 1}
     /\ SubSeq(chat_messages', 1, Len(chat_messages)) = chat_messages
     /\ \A p \in Procs :
          /\ ( loc[p].pc = "c_find" /\ Steps(p) ) => chat_messages' = chat_messages
          /\ ( loc[p].pc = "c_user" /\ Steps(p) )
             => /\ MessagesOf(chat_messages, loc[p].req) = <<>>
                /\ chat_messages' = Append(chat_messages,
                     [book_id |-> loc[p].book_id, sender |-> "user",
                      content |-> loc[p].query, req |-> loc[p].req])
          /\ ( loc[p].pc = "c_ai" /\ Steps(p) )
             => /\ Len(MessagesOf(chat_messages, loc[p].req)) = 1
                /\ MessagesOf(chat_messages, loc[p].req)[1].sender = "user"
                /\ Len(chat_messages') = Len(chat_messages) + 1
                /\ chat_messages'[Len(chat_messages')].sender = "ai"
                /\ chat_messages'[Len(chat_messages')].req = loc[p].req
                /\ chat_messages'[Len(chat_messages')].book_id = loc[p].book_id]_vars
\* Two chat requests have run side by side and each has left its user
\* message and, after it, its assistant message.
C29_Witness ==
  /\ Len(chat_messages) = 4
  /\ chat_messages[1].sender = "user" /\ chat_messages[2].sender = "user"
  /\ chat_messages[3].sender = "ai" /\ chat_messages[4].sender = "ai"
  /\ chat_messages[1].req # chat_messages[2].req

\* C30: when the timer of an auto-hiding notification runs, that
\* notification is not in the list afterwards, and every other notification
\* of the list is still there.
C30_TimedRemoval ==
  [][\A t \in timers :
       t \notin timers'
       => /\ \A k \in 1..Len(notifications') :
               notifications'[k].message # t.notification.message
          /\ SelectSeq(notifications', LAMBDA n : n.message # t.notification.message)
               = SelectSeq(notifications, LAMBDA n : n.message # t.notification.message)]_vars

TypeOK ==
  /\ \A b \in DOMAIN books : books[b].vector_status \in {"pending", "processing", "completed", "failed"}
  /\ now \in 0..MaxCalls
====
